---- MODULE Spec2Model ----
(***************************************************************************)
(* neisandb: the DataStore storage engine of src/neisandb/collection.ts    *)
(* (one collection, one page file) and the FixedArray page cache.          *)
(*                                                                         *)
(* A record's payload is reduced to the value of its one unique field      *)
(* (uniques = {email}); DELETED is the tombstone.  File positions are      *)
(* counted in bytes with a page of pagesize bytes, as in the code.         *)
(*                                                                         *)
(* Spec     : the operations issued one at a time (each awaited before the *)
(*            next), timers firing between them, and close-and-reopen.     *)
(* SpecConc : insert calls issued concurrently, interleaved at their       *)
(*            suspension points with each other and with timer flushes.    *)
(* SpecRW   : concurrent inserts, a findOneAndDelete, flush() and count(). *)
(* SpecBulk : inserts, findAndUpdate batches, flush() and timers.          *)
(* SpecUniq : longer runs of inserts, findAndDelete and timers.            *)
(* SpecLive : the mutations and their timers, with fairness.               *)
(* SpecLock : the calls of SpecRW with the reader semaphore, with fairness.*)
(* SpecFA   : the FixedArray alone.   SpecIx : the OffsetIndex alone.       *)
(* SpecIxConc : concurrent insert calls on the OffsetIndex.                *)
(***************************************************************************)
EXTENDS Integers, Sequences, FiniteSets, TLC

VARIABLES
    start,        \* collection.ts:79   options.idStart ?? 0
    tree,         \* collection.ts:73   the current DataTree: a set of [id, lsn, val]
    cache,        \* collection.ts:74   FixedArray of rotated trees, oldest first
    id,           \* collection.ts:80
    lsn,          \* collection.ts:81
    filesize,     \* collection.ts:82
    lastFlushed,  \* collection.ts:85
    timers,       \* number of setTimeout callbacks still pending
    handle,       \* collection.ts:84   TRUE iff this.flushTimeout names a pending timer
    exists,       \* the collection file exists (fs.access / fs.existsSync)
    file,         \* the file: a sequence of pages, each [zero, tree]
    log,          \* history: the successful mutations, in order, as [id, lsn, val]
    last,         \* history: the last mutating call and what it returned
    lastAct,      \* history: the operation that ran last
    reopened,     \* history: the collection was closed and reopened at least once
    closed,       \* history: right after a reopen, what the closed instance answered
    pc,           \* SpecConc: where each concurrent insert call stands
    ret,          \* SpecConc: the id each insert call returned (-1: none yet)
    writer,       \* collection.ts:69   Mutex: holder first, then the waiters (FIFO)
    flusher,      \* collection.ts:70   Mutex: holder first, then the waiters (FIFO)
    job,          \* SpecConc: the #flush invocations in flight, by owner
    reader,       \* SpecRW: where the concurrent count() call stands
    fa,           \* SpecFA: a FixedArray, its limit and everything inserted into it
    ix            \* SpecIx: an OffsetIndex, its file and what was asked of it

store == <<start, tree, cache, id, lsn, filesize, lastFlushed, timers, handle, exists, file>>
hist  == <<log, last, lastAct, reopened, closed>>
conc  == <<pc, ret, writer, flusher, job, reader>>
lib   == <<fa, ix>>
vars  == <<store, hist, conc, lib>>

(***************************************************************************)
(* Sizes.                                                                  *)
(***************************************************************************)
treesize   == 2      \* entries per page (1500 in the code, scaled down)
pagesize   == 1      \* bytes per page (1024 * 256 in the code, scaled down)
CacheLimit == 1      \* pages the cache keeps (5 in the code, scaled down)
MaxLsn     == 2      \* the greatest lsn insert, update and delete allocate
MaxBulk    == 3      \* findAndDelete is issued after at most this many mutations
MaxUniq    == 5      \* SpecUniq: insert is issued after at most this many mutations
MaxLimit   == 3      \* SpecFA: the greatest limit of a FixedArray
MaxInserted == 5     \* SpecFA: items inserted into one FixedArray, constructor included
MaxIxLsn   == 3      \* SpecIx: the greatest lsn inserted into the OffsetIndex
NumProcs   == 4      \* concurrent insert calls in SpecConc

DELETED == 0                      \* the "DELETED" marker
Vals    == {1, 2, 3}              \* payloads: three values of the unique field
Ids     == 0..MaxLsn              \* ids a caller may ask for
Procs   == 1..NumProcs            \* the callers of the concurrent inserts
Deleter == NumProcs + 1            \* the caller of the concurrent findOneAndDelete
Callers == Procs \cup {Deleter}
FlushCall == NumProcs + 2          \* the caller of the concurrent flush()
Infinity == -1                    \* insert's own-id sentinel: equal to no stored id
NegWrite == {"current", "einval"} \* what fs.write does with a negative position

Max(a, b) == IF a >= b THEN a ELSE b
MaxOf(S, dflt) == IF S = {} THEN dflt ELSE CHOOSE m \in S : \A x \in S : x <= m

(***************************************************************************)
(* DataTree: ordered by id, then lsn.                                      *)
(***************************************************************************)
Entry(i, l, v) == [id |-> i, lsn |-> l, val |-> v]

\* BTree.set: a key already present has its value replaced.
TreeSet(t, i, l, v) == {e \in t : ~(e.id = i /\ e.lsn = l)} \cup {Entry(i, l, v)}

IdsOf(t) == {e.id : e \in t}

\* The first entry of id i that entriesReversed() yields: its greatest lsn.
NewestIn(t, i) == CHOOSE e \in t : e.id = i /\ \A f \in t : f.id = i => f.lsn <= e.lsn

\* getPairOrNextLower({lsn: l, id: i}) when the entry found has id i.
HasFloor(t, i, l) == \E e \in t : e.id = i /\ e.lsn <= l
Floor(t, i, l) == CHOOSE e \in t : /\ e.id = i /\ e.lsn <= l
                                   /\ \A f \in t : (f.id = i /\ f.lsn <= l) => f.lsn <= e.lsn

RECURSIVE DescSeq(_)
DescSeq(S) == IF S = {} THEN <<>>
              ELSE LET m == MaxOf(S, 0) IN <<m>> \o DescSeq(S \ {m})

(***************************************************************************)
(* FixedArray.insert.                                                      *)
(***************************************************************************)
CacheInsert(c, t) == IF Len(c) >= CacheLimit THEN Append(Tail(c), t) ELSE Append(c, t)

(***************************************************************************)
(* The page file.                                                          *)
(***************************************************************************)
Position(l) == ((Max(0, l) - start) \div treesize) * pagesize

Page(t) == [zero |-> FALSE, tree |-> t]
ZeroPage == [zero |-> TRUE, tree |-> {}]

\* fs.write of one page at byte pos >= 0; a gap before it reads as zeros.
WriteAt(f, pos, t) ==
    LET k == (pos \div pagesize) + 1
        n == Max(Len(f), k)
    IN [j \in 1..n |-> IF j = k THEN Page(t) ELSE IF j <= Len(f) THEN f[j] ELSE ZeroPage]

\* fs.read at pos: bytesRead = 0 at or beyond the end of the file.
PastEnd(f, pos) == pos >= Len(f) * pagesize
PageAt(f, pos) == f[(pos \div pagesize) + 1]

(***************************************************************************)
(* #flush(l) with the tree t it encodes, as one step.                      *)
(***************************************************************************)
\* What the write of #flush(l) can do: only a negative position leaves a choice.
WriteOutcomes(l) == IF Position(l) < 0 THEN NegWrite ELSE {"current"}

FlushEffect(l, t, neg) ==
    LET same == [file |-> file, exists |-> exists, filesize |-> filesize,
                 lastFlushed |-> lastFlushed, threw |-> FALSE]
        pos  == Position(l)
        done == [file |-> WriteAt(file, Max(0, pos), t), exists |-> TRUE,
                 filesize |-> Max(filesize, pos + pagesize),
                 lastFlushed |-> l, threw |-> FALSE]
    IN IF l < 0 THEN [same EXCEPT !.threw = TRUE]
       ELSE IF lastFlushed >= l THEN same
       ELSE IF pos < 0 /\ neg = "einval" THEN [same EXCEPT !.exists = TRUE, !.threw = TRUE]
       ELSE done

(***************************************************************************)
(* Predicates of find and count: 0 is "no predicate", v is email = v.      *)
(***************************************************************************)
NoPred == 0
Preds == {NoPred} \cup Vals
Sat(p, v) == p = NoPred \/ v = p

\* One pass of a scan over tree t: the ids it visits for the first time and
\* whose entry is live and satisfies p.
MatchIds(t, seen, p) ==
    {i \in IdsOf(t) \ seen : NewestIn(t, i).val # DELETED /\ Sat(p, NewestIn(t, i).val)}

Instance(t, i) == [id |-> i, val |-> NewestIn(t, i).val]

MatchSeq(t, seen, p) ==
    LET s == DescSeq(MatchIds(t, seen, p)) IN [k \in 1..Len(s) |-> Instance(t, s[k])]

(***************************************************************************)
(* #checkUniques(checked, id): "conflict", "none" or "threw".              *)
(***************************************************************************)
Conflicts(t, seen, v, own) ==
    \E i \in IdsOf(t) \ seen : NewestIn(t, i).val = v /\ v # DELETED /\ i # own

RECURSIVE UniqueDisk(_, _, _, _)
UniqueDisk(pos, seen, v, own) ==
    IF pos < 0 THEN "none"
    ELSE IF PastEnd(file, pos) THEN UniqueDisk(pos - pagesize, seen, v, own)
    ELSE IF PageAt(file, pos).zero THEN "threw"
    ELSE LET t == PageAt(file, pos).tree IN
         IF Conflicts(t, seen, v, own) THEN "conflict"
         ELSE UniqueDisk(pos - pagesize, seen \cup IdsOf(t), v, own)

CheckUniques(v, own) ==
    IF Conflicts(tree, {}, v, own) THEN "conflict"
    ELSE IF ~exists THEN "none"
    ELSE LET position == Position(lsn) - filesize IN
         IF position > filesize THEN "none"
         ELSE UniqueDisk(position, IdsOf(tree), v, own)

(***************************************************************************)
(* count(predicate?): a number, or -1 when a page read cannot be decoded   *)
(* (the assert on the decoded tree fails and count rejects).               *)
(***************************************************************************)
\* The walk from byte pos down to 0 meets a page of zeros.
MeetsZero(pos) ==
    \E q \in 0..pos : q % pagesize = 0 /\ ~PastEnd(file, q) /\ PageAt(file, q).zero

RECURSIVE CountDisk(_, _, _)
CountDisk(pos, seen, p) ==
    IF pos < 0 THEN 0
    ELSE IF PastEnd(file, pos) THEN CountDisk(pos - pagesize, seen, p)
    ELSE LET t == PageAt(file, pos).tree IN
         Cardinality(MatchIds(t, seen, p)) + CountDisk(pos - pagesize, seen \cup IdsOf(t), p)

Count(p) ==
    LET c == Cardinality(MatchIds(tree, {}, p))
        position == filesize - pagesize
    IN IF ~exists THEN c
       ELSE IF position < 0 THEN c
       ELSE IF MeetsZero(position) THEN -1
       ELSE c + CountDisk(position, IdsOf(tree), p)

(***************************************************************************)
(* find(predicate?) without options: [kind, items]; kind is "some", "none" *)
(* (undefined) or "threw".                                                 *)
(***************************************************************************)
RECURSIVE FindDisk(_, _, _)
FindDisk(pos, seen, p) ==
    IF pos < 0 THEN <<>>
    ELSE IF PastEnd(file, pos) THEN FindDisk(pos - pagesize, seen, p)
    ELSE LET t == PageAt(file, pos).tree IN
         MatchSeq(t, seen, p) \o FindDisk(pos - pagesize, seen \cup IdsOf(t), p)

Limited(m) == IF Len(m) > 0 THEN [kind |-> "some", items |-> m]
              ELSE [kind |-> "none", items |-> <<>>]

\* matches.slice(a, b) for a, b >= 0; b = Infinity stands for no end.
SliceNoEnd(m, a, b) == SubSeq(m, a + 1, Len(m))   \* a slice that forgets its end
Slice(m, a, b) ==
    SubSeq(m, a + 1, IF b = Infinity \/ b > Len(m) THEN Len(m) ELSE b)

\* find: the matches gathered up to the return that is taken, before the slice;
\* kind is "threw" when a page read cannot be decoded.
Matches(p) ==
    LET m == MatchSeq(tree, {}, p)
        position == Position(lsn)
        from == IF position = filesize - pagesize THEN position - pagesize ELSE position
    IN IF lsn + start < treesize THEN [kind |-> "ok", items |-> m]
       ELSE IF ~exists THEN [kind |-> "ok", items |-> m]
       ELSE IF position < 0 THEN [kind |-> "ok", items |-> m]
       ELSE IF MeetsZero(from) THEN [kind |-> "threw", items |-> <<>>]
       ELSE [kind |-> "ok", items |-> m \o FindDisk(from, IdsOf(tree), p)]

\* Every return of find: matches.slice(offset ?? 0, limit ?? Infinity), and
\* undefined for an empty result.
Cut(m, offset, limit) ==
    IF m.kind = "threw" THEN m ELSE Limited(Slice(m.items, offset, limit))

\* find(predicate?, {offset, limit}).
FindWith(p, offset, limit) == Cut(Matches(p), offset, limit)

Find(p) == FindWith(p, 0, Infinity)

(***************************************************************************)
(* findOne(id): [kind, val] with kind "live", "none" or "threw".           *)
(***************************************************************************)
None  == [kind |-> "none", val |-> DELETED]
Threw == [kind |-> "threw", val |-> DELETED]
Live(v) == [kind |-> "live", val |-> v]

\* this.cache.reversedEntries(): FixedArray has no such method, so the call
\* throws a TypeError and findOne rejects before it looks at any cached page.
CacheWalk(i, l) == Threw

FindOne(i) ==
    IF i > id THEN None
    ELSE IF HasFloor(tree, i, lsn) /\ Floor(tree, i, lsn).val # DELETED
         THEN Live(Floor(tree, i, lsn).val)
    ELSE CacheWalk(i, lsn)

(***************************************************************************)
(* findOne(predicate): [kind, id, val].  findRecord walks a tree from the  *)
(* greatest id down, looks only at the newest entry of each id it has not  *)
(* seen, and stops at the first live one that satisfies the predicate.     *)
(***************************************************************************)
Found(t, i) == [kind |-> "live", id |-> i, val |-> NewestIn(t, i).val]
NotFound(k) == [kind |-> k, id |-> -1, val |-> DELETED]

\* A walk over the cached trees, newest first, that keeps no set of seen ids:
\* it stops at the first live entry that satisfies the predicate.
AnyVersion(t, p) == {e \in t : e.val # DELETED /\ Sat(p, e.val)}
RECURSIVE ForgetfulWalk(_, _, _)
ForgetfulWalk(p, seen, n) ==
    IF n = 0 THEN NotFound("none")
    ELSE IF AnyVersion(cache[n], p) # {}
         THEN LET e == CHOOSE e \in AnyVersion(cache[n], p) :
                           \A f \in AnyVersion(cache[n], p) : f.id <= e.id
              IN [kind |-> "live", id |-> e.id, val |-> e.val]
         ELSE ForgetfulWalk(p, seen, n - 1)

\* this.cache.reversedEntries() again: the TypeError, whatever the cache holds.
CacheWalkPred(p, seen, n) == NotFound("threw")

FindOnePred(p) ==
    IF MatchIds(tree, {}, p) # {}
    THEN Found(tree, MaxOf(MatchIds(tree, {}, p), 0))
    ELSE CacheWalkPred(p, IdsOf(tree), Len(cache))

\* exists(id): findOne(id) !== undefined; it rejects when findOne does.
Exists(i) == IF FindOne(i).kind = "threw" THEN "threw"
             ELSE IF FindOne(i).kind = "live" THEN "true" ELSE "false"

(***************************************************************************)
(* History: what the collection ought to hold, from the mutations that     *)
(* succeeded.                                                              *)
(***************************************************************************)
Allocated == {log[k].id : k \in 1..Len(log)}
VersionsOf(i) == {k \in 1..Len(log) : log[k].id = i}
NewestVal(i) == log[MaxOf(VersionsOf(i), 1)].val
LiveIds == {i \in Allocated : NewestVal(i) # DELETED}
LiveSat(p) == {i \in LiveIds : Sat(p, NewestVal(i))}
\* Some record other than own is live with value v.
Held(v, own) == \E j \in LiveIds : j # own /\ NewestVal(j) = v

Call(op, i, res, clash) == [op |-> op, id |-> i, res |-> res, clash |-> clash]

(***************************************************************************)
(* FixedArray (shared/fixed-array.ts).                                     *)
(***************************************************************************)
\* insert(item): a full array drops its first entry, then the item is pushed.
FAInsertNoEvict(es, n, x) == Append(es, x)   \* an insert that never drops
FAInsert(es, n, x) ==
    IF Len(es) >= n THEN Append(SubSeq(es, 2, Len(es)), x) ELSE Append(es, x)

\* new FixedArray(entries, limit): each entry is inserted in turn.
RECURSIVE FAFrom(_, _, _)
FAFrom(es, n, init) ==
    IF init = <<>> THEN es ELSE FAFrom(FAInsert(es, n, Head(init)), n, Tail(init))

FANew(init, n) == [entries |-> FAFrom(<<>>, n, init), limit |-> n, all |-> init]
FAIdle == FANew(<<>>, 1)

(***************************************************************************)
(* OffsetIndex (index-engine): a tree of {id, lsn} -> offset, rotated to a *)
(* page file like the collection's.  Entries are [id, lsn, val] with the   *)
(* offset as val.                                                          *)
(***************************************************************************)
IxIds == {0, 1}
NoLookup == [id |-> -1, lsn |-> -1, res |-> -1]
IxCallers == Procs                 \* SpecIxConc: the callers of the concurrent inserts
NoCall == [at |-> "idle", id |-> -1, lsn |-> -1]
IxIdle == [tree |-> {}, cache |-> <<>>, lsn |-> -1, filesize |-> 0, lastFlushed |-> -1,
           timer |-> -1, exists |-> FALSE, file |-> <<>>, log |-> <<>>, last |-> NoLookup,
           writer |-> <<>>, calls |-> [p \in IxCallers |-> NoCall]]

\* #flush(l) on the index x: the tree as it is now is written at #position(l).
IxFlushed(x, l) ==
    IF x.lastFlushed >= l THEN x
    ELSE [x EXCEPT !.file = WriteAt(x.file, Position(l), x.tree), !.exists = TRUE,
                   !.filesize = x.filesize + pagesize, !.lastFlushed = l]

\* The cached tree find stops at: the last one, from the end of the cache, that
\* has an entry of id i at or below lsn q; 0 when there is none.
IxCacheHit(c, i, q) == MaxOf({n \in 1..Len(c) : HasFloor(c[n], i, q)}, 0)

\* The hit is moved to the end of the cache unless it is there already.
Promote(c, n) == SubSeq(c, 1, n - 1) \o SubSeq(c, n + 1, Len(c)) \o <<c[n]>>

\* The read loop of find from byte pos down: the first page with an entry of id
\* i at or below lsn q; page 0 when there is none, -1 when a page does not decode.
RECURSIVE IxDiskHit(_, _, _, _)
IxDiskHit(f, i, q, pos) ==
    IF pos < 0 THEN 0
    ELSE IF PastEnd(f, pos) THEN IxDiskHit(f, i, q, pos - pagesize)
    ELSE IF PageAt(f, pos).zero THEN -1
    ELSE IF HasFloor(PageAt(f, pos).tree, i, q) THEN (pos \div pagesize) + 1
    ELSE IxDiskHit(f, i, q, pos - pagesize)

\* The count() call of SpecRW: where it stands, the position of its next read,
\* max_lsn when it was called, the ids it has seen and the entries it counted.
NoRead == [at |-> "idle", pos |-> -1, snap |-> -1, seen |-> {}, got |-> {}]

\* One pass of count's match over tree t: the entries it counts.
Counted(t, seen) == {NewestIn(t, i) : i \in MatchIds(t, seen, NoPred)}

(***************************************************************************)
(* Initial state: a collection constructed on a directory with no file.    *)
(***************************************************************************)
InitStore ==
    /\ start \in {0, 1}
    /\ tree = {} /\ cache = <<>>
    /\ id = -1 /\ lsn = -1 /\ filesize = 0 /\ lastFlushed = -1
    /\ timers = 0 /\ handle = FALSE
    /\ exists = FALSE /\ file = <<>>
    /\ log = <<>> /\ last = Call("none", -1, "none", FALSE)
    /\ lastAct = "init" /\ reopened = FALSE /\ closed = <<>>
    /\ pc = [p \in Callers |-> "idle"] /\ ret = [p \in Callers |-> -1]
    /\ writer = <<>> /\ flusher = <<>>
    /\ job = [o \in Callers \cup {0, FlushCall} |-> [at |-> "off", lsn |-> -1]]
    /\ reader = NoRead

Init == InitStore /\ fa = FAIdle /\ ix = IxIdle

(***************************************************************************)
(* this.tree.set({id: i, lsn: l}, v) and the rotation or the timer that    *)
(* follows it in insert, findOneAndUpdate and findOneAndDelete.            *)
(***************************************************************************)
Mutate(i, l, v, neg) ==
    LET t  == TreeSet(tree, i, l, v)
        fe == FlushEffect(l, t, neg)
    IN /\ lsn' = l
       /\ IF Cardinality(t) >= treesize
          THEN /\ file' = fe.file /\ exists' = fe.exists
               /\ filesize' = fe.filesize /\ lastFlushed' = fe.lastFlushed
               /\ tree' = IF fe.threw THEN t ELSE {}
               /\ cache' = IF fe.threw THEN cache ELSE CacheInsert(cache, t)
               /\ UNCHANGED <<timers, handle>>
          ELSE /\ tree' = t
               /\ timers' = timers + 1 /\ handle' = TRUE
               /\ UNCHANGED <<cache, file, exists, filesize, lastFlushed>>

\* The call rejects after the entry was stored: the rotation flush threw.
MutateThrew(i, l, v, neg) ==
    LET t == TreeSet(tree, i, l, v) IN
    Cardinality(t) >= treesize /\ FlushEffect(l, t, neg).threw

Outcome(i, l, v, neg) == IF MutateThrew(i, l, v, neg) THEN "threw" ELSE "ok"

(***************************************************************************)
(* Inputs of insert and findOneAndUpdate besides a valid payload with      *)
(* email = v: a payload the schema rejects, and an updater that throws.    *)
(***************************************************************************)
InvalidData == 4
UpdaterThrows == 5
Payloads == Vals \cup {InvalidData}
Updaters == Vals \cup {InvalidData, UpdaterThrows}

\* this.nextLSN is read in the arguments of tree.set, after every check has
\* passed: a call that returns before it leaves lsn as it was.
EagerLSN(res, l) == l + 1   \* an LSN taken before the checks
NextLSN(res, l) == IF res = "none" THEN l + 1 ELSE l

(***************************************************************************)
(* insert(data): data has email = v, or is rejected by the schema.         *)
(***************************************************************************)
InsertCall(v) ==
    /\ lastAct' = "insert"
    /\ closed' = <<>>
    /\ UNCHANGED <<start, reopened, conc, lib>>
    /\ LET res == IF v = InvalidData THEN "schema" ELSE CheckUniques(v, Infinity)
           l == NextLSN(res, lsn)
       IN
       IF res # "none"
       THEN /\ last' = Call("insert", -1, res, v # InvalidData /\ Held(v, Infinity))
            /\ lsn' = l
            /\ UNCHANGED <<tree, cache, id, filesize, lastFlushed, timers, handle,
                           exists, file, log>>
       ELSE \E neg \in WriteOutcomes(l) :
            /\ id' = id + 1
            /\ Mutate(id + 1, l, v, neg)
            /\ log' = Append(log, Entry(id + 1, l, v))
            /\ last' = Call("insert", id + 1, Outcome(id + 1, l, v, neg),
                            Held(v, Infinity))

\* The inserts of Spec: up to MaxLsn + 1 mutations, and one more after a reopen
\* that found no counters.
Insert(v) == (Len(log) <= MaxLsn \/ lsn < 0) /\ InsertCall(v)

(***************************************************************************)
(* findOneAndUpdate(i, u): u sets email = v and returns the instance, or   *)
(* returns a payload the schema rejects, or throws.  A findOne that        *)
(* rejects is outside the try and rejects the call ("threw"); an exception *)
(* of #checkUniques is caught and returned as a general failure.           *)
(***************************************************************************)
Update(i, v) ==
    /\ Len(log) <= MaxLsn
    /\ lastAct' = "update"
    /\ closed' = <<>>
    /\ UNCHANGED <<start, reopened, conc, lib, id>>
    /\ LET found == FindOne(i)
           res == IF found.kind = "none" THEN "nomatch"
                  ELSE IF found.kind = "threw" THEN "threw"
                  ELSE IF v = UpdaterThrows THEN "general"
                  ELSE IF v = InvalidData THEN "schema"
                  ELSE IF CheckUniques(v, i) = "threw" THEN "general"
                  ELSE CheckUniques(v, i)
           l == NextLSN(res, lsn)
       IN IF res # "none"
          THEN /\ last' = Call("update", i, res, v \in Vals /\ Held(v, i))
               /\ lsn' = l
               /\ UNCHANGED <<tree, cache, filesize, lastFlushed, timers, handle,
                              exists, file, log>>
          ELSE \E neg \in WriteOutcomes(l) :
               /\ Mutate(i, l, v, neg)
               /\ log' = Append(log, Entry(i, l, v))
               /\ last' = Call("update", i, Outcome(i, l, v, neg), Held(v, i))

(***************************************************************************)
(* findOneAndDelete(i).                                                    *)
(***************************************************************************)
Delete(i) ==
    /\ Len(log) <= MaxLsn
    /\ lastAct' = "delete"
    /\ closed' = <<>>
    /\ UNCHANGED <<start, reopened, conc, lib, id>>
    /\ LET found == FindOne(i) IN
       IF found.kind # "live"
       THEN /\ last' = Call("delete", i, found.kind, FALSE)
            /\ UNCHANGED <<tree, cache, lsn, filesize, lastFlushed, timers, handle,
                           exists, file, log>>
       ELSE \E neg \in WriteOutcomes(lsn + 1) :
            /\ Mutate(i, lsn + 1, DELETED, neg)
            /\ log' = Append(log, Entry(i, lsn + 1, DELETED))
            /\ last' = Call("delete", i, Outcome(i, lsn + 1, DELETED, neg), FALSE)

(***************************************************************************)
(* findAndDelete(p).  The callbacks of #concurrent are started together    *)
(* (the limiter admits 25 at a time) and each runs up to its first await   *)
(* before any page is written: every tombstone is set in the tree the call *)
(* began with, and each callback that sees the tree full asks for a flush  *)
(* of its own lsn.  The first of these flushes writes that tree; its        *)
(* callback then rotates, so every later flush encodes the empty tree that *)
(* replaced it, and every later callback caches an empty tree.             *)
(***************************************************************************)
Tombstones(t, m, l) == t \cup {Entry(m[n].id, l + n, DELETED) : n \in 1..Len(m)}

\* How many of the k callbacks find tree.size >= treesize after their set.
Rotations(t, k) ==
    Cardinality({n \in 1..k : Cardinality(t) + n >= treesize})

RECURSIVE WriteEach(_, _, _, _)
WriteEach(f, l, n, t) ==
    IF n = 0 THEN f ELSE WriteEach(WriteAt(f, Position(l), t), l + 1, n - 1, {})

RECURSIVE CacheEach(_, _, _)
CacheEach(c, n, t) ==
    IF n = 0 THEN c ELSE CacheEach(CacheInsert(c, t), n - 1, {})

FindAndDelete(p) ==
    /\ lastAct' = "findAndDelete"
    /\ closed' = <<>>
    /\ UNCHANGED <<start, reopened, conc, lib, id>>
    /\ LET matches == Find(p)
           k == Len(matches.items)
           r == Rotations(tree, k)
           t == Tombstones(tree, matches.items, lsn)
       IN
       /\ Len(log) <= MaxBulk
       /\ IF matches.kind # "some"
          THEN /\ last' = Call("findAndDelete", p,
                               IF matches.kind = "none" THEN "nomatch" ELSE "threw", FALSE)
               /\ UNCHANGED <<tree, cache, lsn, filesize, lastFlushed, timers, handle,
                              exists, file, log>>
          ELSE /\ last' = Call("findAndDelete", p, "ok", FALSE)
               /\ lsn' = lsn + k
               /\ log' = log \o [n \in 1..k |-> Entry(matches.items[n].id, lsn + n, DELETED)]
               /\ timers' = (IF handle THEN timers - 1 ELSE timers) + 1
               /\ handle' = TRUE
               /\ IF r = 0
                  THEN /\ tree' = t
                       /\ UNCHANGED <<cache, filesize, lastFlushed, exists, file>>
                  ELSE /\ tree' = {}
                       /\ cache' = CacheEach(cache, r, t)
                       /\ file' = WriteEach(file, lsn + k - r + 1, r, t)
                       /\ exists' = TRUE
                       /\ filesize' = Max(filesize, Position(lsn + k) + pagesize)
                       /\ lastFlushed' = lsn + k

(***************************************************************************)
(* flush(): clearTimeout(this.flushTimeout), then #flush(this.lsn).        *)
(***************************************************************************)
Flush ==
    /\ timers' = IF handle THEN timers - 1 ELSE timers
    /\ handle' = FALSE
    /\ \E neg \in WriteOutcomes(lsn) : LET fe == FlushEffect(lsn, tree, neg) IN
       /\ file' = fe.file /\ exists' = fe.exists
       /\ filesize' = fe.filesize /\ lastFlushed' = fe.lastFlushed
       /\ lastAct' = IF fe.threw THEN "flush threw" ELSE "flush"
    /\ closed' = <<>>
    /\ UNCHANGED <<start, tree, cache, id, lsn, log, last, reopened, conc, lib>>

(***************************************************************************)
(* The oldest pending setTimeout callback runs: #flush(this.lsn).          *)
(***************************************************************************)
TimerFire ==
    /\ timers > 0
    /\ lastAct' = "timer"
    /\ timers' = timers - 1
    /\ handle' = (handle /\ timers > 1)
    /\ \E neg \in WriteOutcomes(lsn) : LET fe == FlushEffect(lsn, tree, neg) IN
       /\ file' = fe.file /\ exists' = fe.exists
       /\ filesize' = fe.filesize /\ lastFlushed' = fe.lastFlushed
    /\ closed' = <<>>
    /\ UNCHANGED <<start, tree, cache, id, lsn, log, last, reopened, conc, lib>>

(***************************************************************************)
(* What a caller reads in a quiescent state.                               *)
(***************************************************************************)
ReadView == [one |-> [i \in Ids |-> FindOne(i)],
             all |-> [p \in Preds |-> Find(p)],
             cnt |-> [p \in Preds |-> Count(p)]]

(***************************************************************************)
(* The process ends with everything flushed and a new DataStore is         *)
(* constructed on the same file.                                           *)
(***************************************************************************)
LastPage == file[Len(file)]
FirstPageRecovered == file[1].tree   \* a recovery that reads position 0
Recovered == LastPage.tree

Reopen ==
    /\ ~reopened
    /\ lastFlushed = lsn
    /\ ~(exists /\ Len(file) > 0 /\ LastPage.zero)
    /\ reopened' = TRUE
    /\ lastAct' = "reopen"
    /\ closed' = ReadView
    /\ cache' = <<>> /\ timers' = 0 /\ handle' = FALSE
    /\ IF ~exists \/ Len(file) = 0
       THEN /\ tree' = {} /\ id' = -1 /\ lsn' = -1 /\ lastFlushed' = -1
            /\ filesize' = 0
       ELSE /\ filesize' = Len(file) * pagesize
            /\ id' = MaxOf({e.id : e \in Recovered}, -1)
            /\ lsn' = MaxOf({e.lsn : e \in Recovered}, -1)
            /\ lastFlushed' = MaxOf({e.lsn : e \in Recovered}, -1)
            /\ tree' = IF Cardinality(Recovered) >= treesize THEN {} ELSE Recovered
    /\ UNCHANGED <<start, exists, file, log, last, conc, lib>>

\* The ids a caller passes: every id given out so far and one that was not.
Targets == 0..(id + 1)

Next ==
    \/ \E v \in Payloads : Insert(v)
    \/ \E i \in Targets, v \in Updaters : Update(i, v)
    \/ \E i \in Targets : Delete(i)
    \/ \E p \in Preds : FindAndDelete(p)
    \/ Flush
    \/ TimerFire
    \/ Reopen

Spec == Init /\ [][Next]_vars

(***************************************************************************)
(* findAndUpdate(p, u), with the updater u of findOneAndUpdate applied to  *)
(* every match.  The callbacks are started together: each is past its      *)
(* "if (error) return" before any of them has failed, and each has checked *)
(* the current tree for a conflict before any of them sets its record.     *)
(* A conflict is returned by the callback and dropped by #concurrent; an   *)
(* exception (of the updater, of schema.parse, of #checkUniques or of the  *)
(* rotation flush) is caught and leaves a general error, which for a       *)
(* ZodError overwrites the schema failure assigned just before.  The calls *)
(* covered are those in which at most one callback passes the check of the *)
(* current tree, so that the order in which the callbacks' file reads      *)
(* complete does not matter.                                               *)
(***************************************************************************)
CallWith(op, i, res, clash, arg) ==
    [op |-> op, id |-> i, res |-> res, clash |-> clash, arg |-> arg]

\* The matches whose #checkUniques finds no conflict in the current tree.
Passers(m, v) == {n \in 1..Len(m) : ~Conflicts(tree, {}, v, m[n].id)}

FindAndUpdate(p, u) ==
    /\ Len(log) <= MaxBulk
    /\ lastAct' = "findAndUpdate"
    /\ closed' = <<>>
    /\ UNCHANGED <<start, reopened, conc, lib, id>>
    /\ LET matches == Find(p)
           m == matches.items
           rearmed == (IF handle THEN timers - 1 ELSE timers) + 1
       IN
       IF matches.kind # "some"
       THEN /\ last' = CallWith("findAndUpdate", p,
                                IF matches.kind = "none" THEN "nomatch" ELSE "threw", FALSE, u)
            /\ UNCHANGED <<tree, cache, lsn, filesize, lastFlushed, timers, handle,
                           exists, file, log>>
       ELSE IF u \notin Vals
       THEN /\ last' = CallWith("findAndUpdate", p, "general", FALSE, u)
            /\ timers' = rearmed /\ handle' = TRUE
            /\ UNCHANGED <<tree, cache, lsn, filesize, lastFlushed, exists, file, log>>
       ELSE /\ Cardinality(Passers(m, u)) <= 1
            /\ timers' = rearmed /\ handle' = TRUE
            /\ IF Passers(m, u) = {} \/ \E n \in Passers(m, u) : CheckUniques(u, m[n].id) # "none"
               THEN /\ last' = CallWith("findAndUpdate", p,
                                        IF \E n \in Passers(m, u) : CheckUniques(u, m[n].id) = "threw"
                                        THEN "general" ELSE "ok",
                                        \E n \in 1..Len(m) : n \notin Passers(m, u)
                                                              \/ CheckUniques(u, m[n].id) = "conflict",
                                        u)
                    /\ UNCHANGED <<tree, cache, lsn, filesize, lastFlushed, exists, file, log>>
               ELSE LET i == m[CHOOSE n \in Passers(m, u) : TRUE].id
                        l == lsn + 1
                        t == TreeSet(tree, i, l, u)
                    IN \E neg \in WriteOutcomes(l) : LET fe == FlushEffect(l, t, neg) IN
                       /\ lsn' = l
                       /\ log' = Append(log, Entry(i, l, u))
                       /\ last' = CallWith("findAndUpdate", p,
                                           IF MutateThrew(i, l, u, neg) THEN "general" ELSE "ok",
                                           Len(m) > 1, u)
                       /\ IF Cardinality(t) >= treesize
                          THEN /\ file' = fe.file /\ exists' = fe.exists
                               /\ filesize' = fe.filesize /\ lastFlushed' = fe.lastFlushed
                               /\ tree' = IF fe.threw THEN t ELSE {}
                               /\ cache' = IF fe.threw THEN cache ELSE CacheInsert(cache, t)
                          ELSE /\ tree' = t
                               /\ UNCHANGED <<cache, file, exists, filesize, lastFlushed>>

NextBulk ==
    \/ \E v \in Payloads : Insert(v)
    \/ \E p \in Preds, u \in Updaters : FindAndUpdate(p, u)
    \/ Flush
    \/ TimerFire

SpecBulk == Init /\ [][NextBulk]_vars

(***************************************************************************)
(* SpecUniq: longer runs of insert, findAndDelete and the timer, for the   *)
(* pages #checkUniques reads once the file has two pages and more.         *)
(***************************************************************************)
InsertMore(v) == Len(log) <= MaxUniq /\ InsertCall(v)

NextUniq ==
    \/ \E v \in Vals : InsertMore(v)
    \/ \E p \in Preds : FindAndDelete(p)
    \/ TimerFire

SpecUniq == Init /\ [][NextUniq]_vars

(***************************************************************************)
(* Concurrent insert calls.  Call p inserts a valid record with email = p. *)
(* A step runs from one suspension point (await) of the code to the next.  *)
(* The Mutex of async-mutex is FIFO; waitForUnlock resumes only when the   *)
(* lock is free and nobody waits for it.                                   *)
(***************************************************************************)
Unlocked(m) == m = <<>>
\* Mutex.runExclusive: the callback of c runs when c is first in the queue.
Queued(m, c) == \E k \in 1..Len(m) : m[k] = c   \* a lock that admits every waiter
Holds(m, c) == m # <<>> /\ Head(m) = c
Off == [at |-> "off", lsn |-> -1]
Timer == 0      \* the owner of the #flush started by a setTimeout callback

\* insert is called: this.writer.runExclusive queues the callback.
CallInsert(p) ==
    /\ pc[p] = "idle"
    /\ pc' = [pc EXCEPT ![p] = "wait"]
    /\ writer' = Append(writer, p)
    /\ UNCHANGED <<store, hist, ret, flusher, job, reader, lib>>

\* The writer lock is p's; await this.flusher.waitForUnlock(), then the schema parse.
BeginInsert(p) ==
    /\ pc[p] = "wait" /\ Holds(writer, p)
    /\ Unlocked(flusher)
    /\ pc' = [pc EXCEPT ![p] = "check"]
    /\ UNCHANGED <<store, hist, ret, writer, flusher, job, reader, lib>>

\* #checkUniques(parsed.data, Infinity); a conflict is returned as a failure (-2).
CheckInsert(p) ==
    /\ pc[p] = "check"
    /\ Unlocked(flusher)
    /\ IF CheckUniques(p, Infinity) = "none"
       THEN /\ pc' = [pc EXCEPT ![p] = "set"]
            /\ UNCHANGED <<ret, writer>>
       ELSE /\ pc' = [pc EXCEPT ![p] = "done"]
            /\ ret' = [ret EXCEPT ![p] = -2]
            /\ writer' = Tail(writer)
    /\ UNCHANGED <<store, hist, flusher, job, reader, lib>>

\* this.tree.set({lsn: this.nextLSN, id: this.nextID}, parsed.data), then either
\* the call of #flush(this.lsn) for a full tree or the new timer and the return.
SetInsert(p) ==
    /\ pc[p] = "set"
    /\ LET l == lsn + 1
           i == id + 1
           t == TreeSet(tree, i, l, p)
       IN /\ tree' = t /\ lsn' = l /\ id' = i
          /\ log' = Append(log, Entry(i, l, p))
          /\ IF Cardinality(t) >= treesize
             THEN /\ IF lastFlushed >= l
                     THEN /\ pc' = [pc EXCEPT ![p] = "rotate"]
                          /\ UNCHANGED <<flusher, job>>
                     ELSE /\ pc' = [pc EXCEPT ![p] = "flush"]
                          /\ job' = [job EXCEPT ![p] = [at |-> "wait", lsn |-> l]]
                          /\ flusher' = Append(flusher, p)
                  /\ UNCHANGED <<timers, handle, ret, writer>>
             ELSE /\ timers' = timers + 1 /\ handle' = TRUE
                  /\ pc' = [pc EXCEPT ![p] = "done"]
                  /\ ret' = [ret EXCEPT ![p] = i]
                  /\ writer' = Tail(writer)
                  /\ UNCHANGED <<flusher, job>>
    /\ UNCHANGED <<start, cache, filesize, lastFlushed, exists, file, last, lastAct, reopened,
                   closed, reader, lib>>

\* #flush: the flusher lock is o's; fs.ensureFile and fs.open.
JobAcquire(o) ==
    /\ job[o].at = "wait" /\ Holds(flusher, o)
    /\ job' = [job EXCEPT ![o].at = "locked"]
    /\ exists' = TRUE
    /\ UNCHANGED <<start, tree, cache, id, lsn, filesize, lastFlushed, timers, handle, file,
                   hist, pc, ret, writer, flusher, reader, lib>>

\* #flush: this.tree, as it is now, is encoded and written at the position of the
\* lsn the call was given. A write refused for its negative position ends the
\* #flush, and the insert that awaited it, with the error (-3).
JobWrite(o) ==
    /\ job[o].at = "locked"
    /\ \E neg \in WriteOutcomes(job[o].lsn) :
       LET pos == Position(job[o].lsn) IN
       IF pos < 0 /\ neg = "einval"
       THEN /\ job' = [job EXCEPT ![o] = Off]
            /\ flusher' = Tail(flusher)
            /\ IF o \in Callers
               THEN /\ pc' = [pc EXCEPT ![o] = "done"]
                    /\ ret' = [ret EXCEPT ![o] = -3]
                    /\ writer' = Tail(writer)
               ELSE UNCHANGED <<pc, ret, writer>>
            /\ UNCHANGED file
       ELSE /\ file' = WriteAt(file, Max(0, pos), tree)
            /\ job' = [job EXCEPT ![o].at = "written"]
            /\ UNCHANGED <<flusher, pc, ret, writer>>
    /\ UNCHANGED <<start, tree, cache, id, lsn, filesize, lastFlushed, timers, handle, exists,
                   hist, reader, lib>>

\* #flush: after the write, filesize and lastFlushed; the lock is released.
JobDone(o) ==
    /\ job[o].at = "written"
    /\ filesize' = Max(filesize, Position(job[o].lsn) + pagesize)
    /\ lastFlushed' = job[o].lsn
    /\ job' = [job EXCEPT ![o] = Off]
    /\ flusher' = Tail(flusher)
    /\ pc' = IF o \in Callers THEN [pc EXCEPT ![o] = "rotate"] ELSE pc
    /\ UNCHANGED <<start, tree, cache, id, lsn, timers, handle, exists, file, hist, ret, writer,
                   reader, lib>>

\* After the awaited #flush: this.cache.insert(this.tree), a new tree, the return.
RotateInsert(p) ==
    /\ pc[p] = "rotate"
    /\ cache' = CacheInsert(cache, tree)
    /\ tree' = {}
    /\ pc' = [pc EXCEPT ![p] = "done"]
    /\ ret' = [ret EXCEPT ![p] = IF p = Deleter THEN ret[p] ELSE id]
    /\ writer' = Tail(writer)
    /\ UNCHANGED <<start, id, lsn, filesize, lastFlushed, timers, handle, exists, file, hist,
                   flusher, job, reader, lib>>

\* A pending timer fires: #flush(this.lsn) up to its request for the flusher lock.
TimerFireConc ==
    /\ timers > 0
    /\ job[Timer].at = "off"
    /\ timers' = timers - 1
    /\ handle' = (handle /\ timers > 1)
    /\ IF lastFlushed >= lsn
       THEN UNCHANGED <<flusher, job>>
       ELSE /\ job' = [job EXCEPT ![Timer] = [at |-> "wait", lsn |-> lsn]]
            /\ flusher' = Append(flusher, Timer)
    /\ UNCHANGED <<start, tree, cache, id, lsn, filesize, lastFlushed, exists, file, hist,
                   pc, ret, writer, reader, lib>>

NextConc ==
    \/ \E p \in Procs : CallInsert(p)
    \/ \E p \in Procs : BeginInsert(p)
    \/ \E p \in Procs : CheckInsert(p)
    \/ \E p \in Procs : SetInsert(p)
    \/ \E p \in Procs : RotateInsert(p)
    \/ \E o \in Procs \cup {Timer} : JobAcquire(o)
    \/ \E o \in Procs \cup {Timer} : JobWrite(o)
    \/ \E o \in Procs \cup {Timer} : JobDone(o)
    \/ TimerFireConc

SpecConc == Init /\ [][NextConc]_vars

(***************************************************************************)
(* SpecFA: FixedArrays built by the constructor and grown by insert.       *)
(***************************************************************************)
Items == {1, 2}

RECURSIVE SeqsUpTo(_)
SeqsUpTo(n) ==
    IF n = 0 THEN {<<>>}
    ELSE SeqsUpTo(n - 1) \cup {Append(q, x) : q \in {r \in SeqsUpTo(n - 1) : Len(r) = n - 1},
                                             x \in Items}

InitFA ==
    /\ InitStore /\ start = 0 /\ ix = IxIdle
    /\ \E n \in 1..MaxLimit, init \in SeqsUpTo(MaxInserted - 1) : fa = FANew(init, n)

FAPush(x) ==
    /\ Len(fa.all) < MaxInserted
    /\ fa' = [fa EXCEPT !.entries = FAInsert(fa.entries, fa.limit, x),
                        !.all = Append(fa.all, x)]
    /\ UNCHANGED <<store, hist, conc, ix>>

NextFA == \E x \in Items : FAPush(x)

SpecFA == InitFA /\ [][NextFA]_vars

(***************************************************************************)
(* SpecIx: one OffsetIndex (start 0), its inserts with lsn 0, 1, 2, ...    *)
(* and offset = lsn, its timer, flush() and find.                          *)
(***************************************************************************)
InitIx == InitStore /\ start = 0 /\ fa = FAIdle /\ ix = IxIdle

\* insert(i, l, offset): the pending timer is cleared and the entry set; a full
\* tree is flushed, cached unless the cache is full, and replaced; otherwise a
\* timer that will flush lsn l is started.
IxInsert(i) ==
    /\ ix.lsn < MaxIxLsn
    /\ LET l == ix.lsn + 1
           t == ix.tree \cup {Entry(i, l, l)}
           x == [ix EXCEPT !.tree = t, !.lsn = l, !.timer = -1,
                           !.log = Append(ix.log, Entry(i, l, l)), !.last = NoLookup]
           y == IxFlushed(x, l)
       IN ix' = IF Cardinality(t) >= treesize
                THEN [y EXCEPT !.tree = {},
                               !.cache = IF Len(y.cache) >= CacheLimit THEN y.cache
                                         ELSE FAInsert(y.cache, CacheLimit, t)]
                ELSE [x EXCEPT !.timer = l]
    /\ UNCHANGED <<store, hist, conc, fa>>

\* The timer started by the last insert fires: #flush of the lsn it captured.
IxTimerFire ==
    /\ ix.timer >= 0
    /\ ix' = [IxFlushed(ix, ix.timer) EXCEPT !.timer = -1, !.last = NoLookup]
    /\ UNCHANGED <<store, hist, conc, fa>>

\* flush(): clearTimeout, then #flush(this.lsn).
IxFlush ==
    /\ ix.lsn >= 0
    /\ ix' = [IxFlushed(ix, ix.lsn) EXCEPT !.timer = -1, !.last = NoLookup]
    /\ UNCHANGED <<store, hist, conc, fa>>

\* find(i, q): the tree, then the cache from its end, then the file from
\* #position(q) down; res is the offset, -1 for undefined, -2 for a rejection.
IxFind(i, q) ==
    /\ LET n == IxCacheHit(ix.cache, i, q)
           k == IxDiskHit(ix.file, i, q, Position(q))
           done(r, c) == [ix EXCEPT !.cache = c, !.last = [id |-> i, lsn |-> q, res |-> r]]
       IN ix' = IF HasFloor(ix.tree, i, q) THEN done(Floor(ix.tree, i, q).val, ix.cache)
                ELSE IF n > 0
                     THEN done(Floor(ix.cache[n], i, q).val,
                               IF n # Len(ix.cache) THEN Promote(ix.cache, n) ELSE ix.cache)
                ELSE IF ~ix.exists \/ Position(q) > ix.filesize THEN done(-1, ix.cache)
                ELSE IF k = -1 THEN done(-2, ix.cache)
                ELSE IF k = 0 THEN done(-1, ix.cache)
                ELSE done(Floor(ix.file[k].tree, i, q).val,
                          FAInsert(ix.cache, CacheLimit, ix.file[k].tree))
    /\ UNCHANGED <<store, hist, conc, fa>>

NextIx ==
    \/ \E i \in IxIds : IxInsert(i)
    \/ IxTimerFire
    \/ IxFlush
    \/ \E i \in IxIds, q \in 0..MaxIxLsn : IxFind(i, q)

SpecIx == InitIx /\ [][NextIx]_vars

(***************************************************************************)
(* SpecIxConc: insert calls on one OffsetIndex issued concurrently, each   *)
(* with an lsn of its caller's choice, and the timer.  A call compares its *)
(* lsn with the index's before it asks for the writer lock; its callback   *)
(* runs when the lock is its own.                                          *)
(***************************************************************************)
\* insert(i, l, offset) is called: nothing happens for l <= this.lsn; otherwise
\* this.writer.runExclusive queues the callback.
IxCall(p, i, l) ==
    /\ ix.calls[p].at = "idle"
    /\ ix' = IF l <= ix.lsn
             THEN [ix EXCEPT !.calls[p] = [at |-> "done", id |-> i, lsn |-> l]]
             ELSE [ix EXCEPT !.calls[p] = [at |-> "wait", id |-> i, lsn |-> l],
                             !.writer = Append(ix.writer, p)]
    /\ UNCHANGED <<store, hist, conc, fa>>

\* The callback of p: the pending timer is cleared, the entry is set and the
\* index takes the call's lsn; a full tree is flushed, cached unless the cache
\* is full, and replaced; otherwise a timer that will flush that lsn is started.
IxRun(p) ==
    /\ ix.calls[p].at = "wait" /\ Holds(ix.writer, p)
    /\ LET i == ix.calls[p].id
           l == ix.calls[p].lsn
           t == TreeSet(ix.tree, i, l, l)
           x == [ix EXCEPT !.tree = t, !.lsn = l, !.timer = -1,
                           !.log = Append(ix.log, Entry(i, l, l)), !.last = NoLookup,
                           !.writer = Tail(ix.writer), !.calls[p].at = "done"]
           y == IxFlushed(x, l)
       IN ix' = IF Cardinality(t) >= treesize
                THEN [y EXCEPT !.tree = {},
                               !.cache = IF Len(y.cache) >= CacheLimit THEN y.cache
                                         ELSE FAInsert(y.cache, CacheLimit, t)]
                ELSE [x EXCEPT !.timer = l]
    /\ UNCHANGED <<store, hist, conc, fa>>

NextIxConc ==
    \/ \E p \in IxCallers, i \in IxIds, l \in 0..MaxIxLsn : IxCall(p, i, l)
    \/ \E p \in IxCallers : IxRun(p)
    \/ IxTimerFire

SpecIxConc == InitIx /\ [][NextIxConc]_vars

(***************************************************************************)
(* SpecRW: concurrent inserts, one findOneAndDelete, flush() calls and one *)
(* count(), with the timers and the #flush invocations they start.         *)
(***************************************************************************)
RWProcs == 1..(NumProcs - 2)       \* the inserts of SpecRW

\* findOneAndDelete is called: this.writer.runExclusive queues the callback.
CallDelete ==
    /\ pc[Deleter] = "idle"
    /\ pc' = [pc EXCEPT ![Deleter] = "wait"]
    /\ writer' = Append(writer, Deleter)
    /\ UNCHANGED <<store, hist, ret, flusher, job, reader, lib>>

\* The writer lock is the call's: findOne(i); nothing found returns undefined
\* (-1) and a findOne that rejects rejects the call (-3).  Otherwise the
\* tombstone is set, then the call of #flush(this.lsn) for a full tree or the
\* new timer and the return.
BeginDelete(i) ==
    /\ pc[Deleter] = "wait" /\ Holds(writer, Deleter)
    /\ LET found == FindOne(i)
           l == lsn + 1
           t == TreeSet(tree, i, l, DELETED)
       IN IF found.kind # "live"
          THEN /\ pc' = [pc EXCEPT ![Deleter] = "done"]
               /\ ret' = [ret EXCEPT ![Deleter] = IF found.kind = "threw" THEN -3 ELSE -1]
               /\ writer' = Tail(writer)
               /\ UNCHANGED <<tree, lsn, log, timers, handle, flusher, job>>
          ELSE /\ tree' = t /\ lsn' = l
               /\ log' = Append(log, Entry(i, l, DELETED))
               /\ ret' = [ret EXCEPT ![Deleter] = i]
               /\ IF Cardinality(t) >= treesize
                  THEN /\ IF lastFlushed >= l
                          THEN /\ pc' = [pc EXCEPT ![Deleter] = "rotate"]
                               /\ UNCHANGED <<flusher, job>>
                          ELSE /\ pc' = [pc EXCEPT ![Deleter] = "flush"]
                               /\ job' = [job EXCEPT ![Deleter] = [at |-> "wait", lsn |-> l]]
                               /\ flusher' = Append(flusher, Deleter)
                       /\ UNCHANGED <<timers, handle, writer>>
                  ELSE /\ timers' = timers + 1 /\ handle' = TRUE
                       /\ pc' = [pc EXCEPT ![Deleter] = "done"]
                       /\ writer' = Tail(writer)
                       /\ UNCHANGED <<flusher, job>>
    /\ UNCHANGED <<start, cache, id, filesize, lastFlushed, exists, file, last, lastAct,
                   reopened, closed, reader, lib>>

\* count(): the entries of this.tree are matched; without a file, or with no
\* whole page in it, that is the answer.  Otherwise the call awaits
\* this.flusher.waitForUnlock() with its position at the last page.
CountStart ==
    /\ reader.at = "idle"
    /\ reader' = [at |-> IF ~exists \/ filesize - pagesize < 0 THEN "done" ELSE "wait",
                  pos |-> IF ~exists \/ filesize - pagesize < 0 THEN -1 ELSE filesize - pagesize,
                  snap |-> lsn, seen |-> IdsOf(tree), got |-> Counted(tree, {})]
    /\ UNCHANGED <<store, hist, pc, ret, writer, flusher, job, lib>>

\* waitForUnlock resolved: fs.open.
CountOpen ==
    /\ reader.at = "wait"
    /\ Unlocked(flusher)
    /\ reader' = [reader EXCEPT !.at = "reading"]
    /\ UNCHANGED <<store, hist, pc, ret, writer, flusher, job, lib>>

\* One fs.read of the loop and the match of the page it read, or the end of
\* the loop and fs.close.  A page that does not decode rejects the call.
CountRead ==
    /\ reader.at = "reading"
    /\ reader' = IF reader.pos < 0 THEN [reader EXCEPT !.at = "done", !.pos = -1]
                 ELSE IF PastEnd(file, reader.pos)
                      THEN [reader EXCEPT !.pos = reader.pos - pagesize]
                 ELSE IF PageAt(file, reader.pos).zero
                      THEN [reader EXCEPT !.at = "threw", !.pos = -1]
                 ELSE LET t == PageAt(file, reader.pos).tree IN
                      [reader EXCEPT !.pos = reader.pos - pagesize,
                                     !.seen = reader.seen \cup IdsOf(t),
                                     !.got = reader.got \cup Counted(t, reader.seen)]
    /\ UNCHANGED <<store, hist, pc, ret, writer, flusher, job, lib>>

\* flush() is called: clearTimeout(this.flushTimeout), then #flush(this.lsn) up
\* to its request for the flusher lock.  Before the first mutation LSN(-1)
\* throws and the call changes nothing.
FlushConc ==
    /\ job[FlushCall].at = "off"
    /\ lsn >= 0
    /\ timers' = IF handle THEN timers - 1 ELSE timers
    /\ handle' = FALSE
    /\ IF lastFlushed >= lsn
       THEN UNCHANGED <<flusher, job>>
       ELSE /\ job' = [job EXCEPT ![FlushCall] = [at |-> "wait", lsn |-> lsn]]
            /\ flusher' = Append(flusher, FlushCall)
    /\ UNCHANGED <<start, tree, cache, id, lsn, filesize, lastFlushed, exists, file, hist,
                   pc, ret, writer, reader, lib>>

NextRW ==
    \/ \E p \in RWProcs : CallInsert(p)
    \/ \E p \in RWProcs : BeginInsert(p)
    \/ \E p \in RWProcs : CheckInsert(p)
    \/ \E p \in RWProcs : SetInsert(p)
    \/ \E p \in RWProcs \cup {Deleter} : RotateInsert(p)
    \/ CallDelete
    \/ \E i \in Ids : BeginDelete(i)
    \/ \E o \in RWProcs \cup {Deleter, Timer, FlushCall} : JobAcquire(o)
    \/ \E o \in RWProcs \cup {Deleter, Timer, FlushCall} : JobWrite(o)
    \/ \E o \in RWProcs \cup {Deleter, Timer, FlushCall} : JobDone(o)
    \/ TimerFireConc
    \/ FlushConc
    \/ CountStart
    \/ CountOpen
    \/ CountRead

SpecRW == Init /\ [][NextRW]_vars

ItemIds(r) == {r.items[k].id : k \in 1..Len(r.items)}

\* C1: after a successful findOneAndDelete(i) and before any later mutation,
\* findOne(i) returns none and exists(i) is false.
C1_Tombstone ==
    (last.op = "delete" /\ last.res = "ok")
        => (FindOne(last.id) = None /\ Exists(last.id) = "false")

\* C2: an insert of f = v, or an update of another id to f = v, fails with a
\* conflict on f whenever some id's newest version is live with f = v.
C2_UniquenessEnforced ==
    (last.op \in {"insert", "update"} /\ last.clash /\ last.res \notin {"nomatch", "threw", "general"})
        => last.res = "conflict"

\* C3: find(p) returns exactly one instance for every id whose newest version
\* is live and satisfies p, nothing else, and none only when there is no such id.
C3_FindExact ==
    \A p \in Preds : LET r == Find(p) IN
        /\ r.kind # "threw"
        /\ ItemIds(r) = LiveSat(p)
        /\ Len(r.items) = Cardinality(LiveSat(p))
        /\ \A k \in 1..Len(r.items) : r.items[k].val = NewestVal(r.items[k].id)
        /\ (r.kind = "none") <=> (LiveSat(p) = {})

\* C4: a DataStore reopened after a completed flush answers findOne(i) for every
\* i, find and count as the instance that was closed did.
C4_Persistence == lastAct = "reopen" => ReadView = closed
C4_Reopened ==
    /\ lastAct = "reopen" /\ start = 0
    /\ Len(file) >= 2 /\ Cardinality(file[1].tree) = treesize
    /\ tree # {} /\ Cardinality(tree) < treesize
    /\ Count(NoPred) = 3 /\ Find(NoPred).kind = "some"

\* C5: findOne(i) returns the inserted payload of every id that was inserted and
\* neither updated nor deleted since.
C5_RoundTrip ==
    \A i \in Allocated :
        Cardinality(VersionsOf(i)) = 1 => FindOne(i) = Live(NewestVal(i))

\* C6: findOne(i) returns the payload of the latest update of every id that was
\* updated and never deleted.
C6_NewestWins ==
    \A i \in Allocated :
        (Cardinality(VersionsOf(i)) > 1 /\ \A k \in VersionsOf(i) : log[k].val # DELETED)
            => FindOne(i) = Live(NewestVal(i))

\* C8: after n inserts and nothing else the file holds n \div treesize full
\* pages and findOne returns every inserted id.
OnlyInserts == Len(log) > 0 /\ ~reopened /\ \A k \in 1..Len(log) : log[k].id = k - 1
FullPages == Cardinality({k \in 1..Len(file) : Cardinality(file[k].tree) >= treesize})
C8_RotationFindable ==
    OnlyInserts => /\ FullPages = Len(log) \div treesize
                   /\ \A i \in Allocated : FindOne(i) = Live(NewestVal(i))

\* C9: when flush() has completed, lastFlushed = max_lsn and the page at the
\* slot of max_lsn holds the current tree (the tree rotated out when it is empty).
SlotHoldsPage ==
    LET pos == Position(lsn) IN
    /\ exists /\ pos >= 0 /\ ~PastEnd(file, pos) /\ ~PageAt(file, pos).zero
    /\ LET t == PageAt(file, pos).tree IN
       IF tree # {} THEN t = tree
       ELSE IF cache # <<>> THEN t = cache[Len(cache)]
       ELSE Cardinality(t) >= treesize /\ MaxOf({e.lsn : e \in t}, -1) = lsn
C9_DurabilityBoundary ==
    lastAct = "flush" => (lastFlushed = lsn /\ SlotHoldsPage)

\* C10: count(p) is the number of ids whose newest version is live and satisfies p.
C10_CountExact == \A p \in Preds : Count(p) = Cardinality(LiveSat(p))

\* C7: when N concurrent inserts of distinct values have all returned, they
\* returned the ids 0..N-1, one each, and each record is stored once.
AllDone == \A p \in Procs : pc[p] = "done"
StoredEntries ==
    tree \cup UNION {cache[k] : k \in 1..Len(cache)}
         \cup UNION {file[k].tree : k \in 1..Len(file)}
C7_ConcurrentInserts ==
    AllDone => /\ {ret[p] : p \in Procs} = 0..(NumProcs - 1)
               /\ \A p \in Procs : Entry(ret[p], ret[p], p) \in StoredEntries
               /\ Cardinality(StoredEntries) = NumProcs

\* C11: find(p, {offset: o, limit: l}) is a prefix of find(p).slice(o, o + l).
Offsets == 0..2
Limits == 0..3
IsPrefix(a, b) == Len(a) <= Len(b) /\ a = SubSeq(b, 1, Len(a))
Window(m, o, l) == SubSeq(m, o + 1, IF o + l > Len(m) THEN Len(m) ELSE o + l)
C11_Pagination ==
    \A p \in Preds : LET m == Matches(p)
                          all == Cut(m, 0, Infinity)
                      IN
        \A o \in Offsets, l \in Limits : LET some == Cut(m, o, l) IN
            /\ (all.kind = "threw") = (some.kind = "threw")
            /\ IsPrefix(some.items, Window(all.items, o, l))
C11_ShortPage ==
    /\ Len(Find(NoPred).items) = 3
    /\ Len(FindWith(NoPred, 1, 2).items) = 1
    /\ FindWith(NoPred, 1, 2).items[1] = Find(NoPred).items[2]


\* C12: an insert or findOneAndUpdate that returns a failure (the schema rejects
\* the payload, a unique value is taken, the updater throws) leaves max_lsn,
\* max_id, the current page, the cache and the file as they were, and findOne
\* of the target answers as before.
Failures == {"schema", "conflict", "general"}
C12_FailureChangesNothing ==
    [][(lastAct' \in {"insert", "update"} /\ last'.res \in Failures)
        => /\ UNCHANGED <<tree, cache, id, lsn, filesize, lastFlushed, timers,
                          handle, exists, file>>
           /\ \A i \in Ids : (last'.op = "update" /\ last'.id = i)
                                 => FindOne(i)' = FindOne(i)]_vars
C12_UpdateRefused ==
    /\ lastAct = "update" /\ last.res = "general"
    /\ FindOne(last.id).kind = "live"
    /\ tree # {} /\ exists

\* C13: findOneAndUpdate(i, u) where i has no live newest version (never
\* allocated, or deleted) returns the "No Document Matches" failure as a value
\* and allocates no LSN.
C13_NoMatchIsAValue ==
    [][(lastAct' = "update" /\ last'.id \notin LiveIds)
        => (last'.res = "nomatch" /\ lsn' = lsn)]_vars

\* C14: findAndDelete(p) with k >= 1 live matches returns those k instances and
\* writes k tombstones, each at a new LSN; afterwards none of them is found and
\* count has dropped by k.  With no live match it returns the "No Document
\* Matches" failure and changes nothing.
C14_FindAndDelete ==
    [][\A p \in Preds : (lastAct' = "findAndDelete" /\ last'.id = p) =>
        LET S == LiveSat(p) IN
        IF S = {}
        THEN /\ last'.res = "nomatch"
             /\ UNCHANGED <<tree, cache, id, lsn, filesize, lastFlushed, exists, file>>
        ELSE /\ last'.res = "ok"
             /\ ItemIds(Find(p)) = S
             /\ lsn' = lsn + Cardinality(S)
             /\ Find(p)'.kind = "none"
             /\ Count(NoPred)' = Cardinality(LiveIds \ S)]_vars

\* C15: while a #flush holds the flusher lock and is writing its page, no
\* count() is between opening the file and the end of its read loop.
Writing == \E o \in Callers \cup {Timer, FlushCall} : job[o].at = "locked"
C15_NoReadDuringWrite == ~(reader.at = "reading" /\ Writing)

\* C17: at most one of the mutating calls is inside its critical section, it
\* is the call at the head of the writer lock's queue, every other call that
\* was made and has not returned is waiting without having changed anything,
\* and the count() call is never in that queue.
InCall == {"check", "set", "flush", "rotate"}
C17_WriterExclusion ==
    /\ \A p, q \in Callers : (pc[p] \in InCall /\ pc[q] \in InCall) => p = q
    /\ \A p \in Callers : pc[p] \in InCall => Holds(writer, p)
    /\ \A p \in Callers : Queued(writer, p) <=> pc[p] \in InCall \cup {"wait"}
    /\ \A k \in 1..Len(writer) : writer[k] \in Callers
C17_OneInsideOthersWait ==
    /\ pc[Deleter] = "wait"
    /\ \E p \in Procs : pc[p] = "flush"
    /\ reader.at = "reading"

\* C16: findOne(p) returns an instance only of an id whose newest version is
\* live and satisfies p, with the payload of that version; an id whose older
\* version satisfies p and whose newest version does not is never returned.
C16_NoSupersededMatch ==
    \A p \in Preds : LET r == FindOnePred(p) IN
        r.kind = "live" => (r.id \in LiveSat(p) /\ r.val = NewestVal(r.id))
C16_OldVersionInOlderPage ==
    \E i \in LiveIds : \E k \in VersionsOf(i) :
        /\ log[k].val \in Vals /\ log[k].val # NewestVal(i)
        /\ \E n \in 1..Len(cache) : Entry(i, log[k].lsn, log[k].val) \in cache[n]
        /\ \E n \in 1..Len(file) : Entry(i, log[k].lsn, log[k].val) \in file[n].tree
        /\ FindOnePred(log[k].val).kind # "live"

\* C18: a FixedArray with limit n holds at most n entries, and they are the
\* last min(n, total) items inserted (by the constructor or by insert), in
\* insertion order.
LastOf(q, m) == SubSeq(q, Len(q) - m + 1, Len(q))
C18_FixedArrayKeepsLast ==
    /\ Len(fa.entries) <= fa.limit
    /\ fa.entries = LastOf(fa.all, IF Len(fa.all) < fa.limit THEN Len(fa.all) ELSE fa.limit)
C18_Evicted ==
    /\ fa.limit = 2 /\ Len(fa.all) = MaxInserted
    /\ fa.entries = <<fa.all[MaxInserted - 1], fa.all[MaxInserted]>>
    /\ fa.all[1] # fa.all[MaxInserted - 1]

\* C19: find(i, q) on the OffsetIndex returns the offset inserted with the
\* version of i that has the greatest lsn <= q, wherever that entry is.
IxVersions(i, q) == {k \in 1..Len(ix.log) : ix.log[k].id = i /\ ix.log[k].lsn <= q}
C19_IndexLookup ==
    (ix.last.id >= 0 /\ IxVersions(ix.last.id, ix.last.lsn) # {})
        => ix.last.res = ix.log[MaxOf(IxVersions(ix.last.id, ix.last.lsn), 1)].val

\* C20: a slot of the file that holds a full tree keeps every entry of that
\* tree in every later write, for start 0 and start 1.
FullSlots(f) == {n \in 1..Len(f) : ~f[n].zero /\ Cardinality(f[n].tree) >= treesize}
C20_FullPageKept ==
    [][\A n \in FullSlots(file) : n <= Len(file') /\ file[n].tree \subseteq file'[n].tree]_vars

\* C21: every page of the file holds only entries whose lsn belongs to it:
\* page k (at byte k * pagesize, k >= 0) holds lsns L with
\* floor((L - start) / treesize) = k.
PageIndex(l) == (l - start) \div treesize
C21_PageHoldsItsRange ==
    \A n \in 1..Len(file) : \A e \in file[n].tree : PageIndex(e.lsn) = n - 1

\* C22: between calls the current page holds fewer than treesize entries, and
\* no tree that was the current page when it was cached or encoded into the
\* file holds more than treesize entries.
C22_PageBound ==
    /\ Cardinality(tree) < treesize
    /\ \A n \in 1..Len(cache) : Cardinality(cache[n]) <= treesize
    /\ \A n \in 1..Len(file) : Cardinality(file[n].tree) <= treesize

\* C23: -1 <= lastFlushed <= max_lsn in every state, and no step of a mutation,
\* a flush() call or a timer flush lowers max_lsn or lastFlushed.
C23_Watermark ==
    [][lastAct' # "reopen" =>
          /\ -1 <= lastFlushed' /\ lastFlushed' <= lsn'
          /\ lsn <= lsn' /\ lastFlushed <= lastFlushed']_vars
C23_FlushesInFlight ==
    /\ job[Timer].at = "written" /\ job[FlushCall].at = "wait"
    /\ \E p \in Procs : job[p].at = "wait" /\ job[p].lsn > job[FlushCall].lsn
    /\ lastFlushed < job[Timer].lsn

\* C24: a successful insert raises max_lsn and max_id by one and stores an
\* entry keyed (max_id, max_lsn); a successful findOneAndUpdate or
\* findOneAndDelete raises max_lsn by one, keeps max_id and stores an entry
\* keyed (id, max_lsn); no two entries in the tree, the cache and the file
\* share an lsn, and no entry in memory has an lsn above max_lsn.
InMemory == tree \cup UNION {cache[k] : k \in 1..Len(cache)}
C24_Allocation ==
    [][/\ (lastAct' = "insert" /\ last'.res = "ok")
            => /\ lsn' = lsn + 1 /\ id' = id + 1
               /\ \E e \in StoredEntries' : e.id = id' /\ e.lsn = lsn'
       /\ (lastAct' \in {"update", "delete"} /\ last'.res = "ok")
            => /\ lsn' = lsn + 1 /\ id' = id
               /\ \E e \in StoredEntries' : e.id = last'.id /\ e.lsn = lsn'
       /\ \A e, f \in StoredEntries' : e.lsn = f.lsn => e = f
       /\ \A e \in InMemory' : e.lsn <= lsn']_vars

\* C25: in a collection that was flushed and reopened, max_id is at least every
\* id stored in any page of the file, so that no insert gives out a stored id
\* and findOne is cut off for none.
FileIds == UNION {IdsOf(file[n].tree) : n \in 1..Len(file)}
C25_IdsSurviveReopen == reopened => \A i \in FileIds : i <= id

\* C26: every mutation whose lsn is at or below lastFlushed is in a page of the
\* file, with its value.
C26_WatermarkTruthful ==
    \A k \in 1..Len(log) :
        log[k].lsn <= lastFlushed => \E n \in 1..Len(file) : log[k] \in file[n].tree

\* C27: at most one flush timer is pending.
C27_OneTimer == timers <= 1

\* C28: when flush() has returned, and when a mutation has rotated the page, no
\* flush timer is pending.
Rotated == last.res = "ok" /\ tree = {} /\ cache # <<>>
C28_NoTimerLeft ==
    /\ lastAct = "flush" => timers = 0
    /\ (lastAct \in {"insert", "update", "delete"} /\ Rotated) => timers = 0

\* C29: flush() called when lastFlushed >= max_lsn completes without error,
\* writes nothing and leaves lastFlushed and filesize as they were.
C29_CoveredFlushIsNoOp ==
    [][(lastAct' \in {"flush", "flush threw"} /\ lastFlushed >= lsn)
          => (lastAct' = "flush" /\ UNCHANGED <<file, exists, lastFlushed, filesize>>)]_vars

\* C30: a findAndUpdate in which the update of a matched record fails returns
\* that failure: a schema failure when the schema rejects the updated payload,
\* a conflict when a unique value is taken, a general error when the updater
\* throws; never a success.
C30_FirstFailureReturned ==
    (last.op = "findAndUpdate" /\ last.res \notin {"nomatch", "threw"})
        => /\ last.arg = UpdaterThrows => last.res = "general"
           /\ last.arg = InvalidData => last.res = "schema"
           /\ last.clash => last.res = "conflict"

\* C31: an insert or findOneAndUpdate reports a conflict only when some other
\* id's newest version is live and holds the value; an id whose newest version
\* is deleted or holds another value never blocks the call.
C31_NoFalseConflict ==
    (last.op \in {"insert", "update"} /\ last.res = "conflict") => last.clash

\* C32: a count() that was called when max_lsn was L counts no version whose
\* lsn is greater than L, whatever completes while it is suspended.
C32_SnapshotRead == \A e \in reader.got : e.lsn <= reader.snap

\* C33: the constructor on a file with at least one page takes max_lsn and
\* lastFlushed from the greatest lsn of the last page (-1 for a page without
\* entries) and keeps that page as the current one unless it holds treesize
\* entries or more, in which case the current page is empty; on a missing or
\* empty file max_lsn = max_id = lastFlushed = -1 and the page is empty.
C33_Recovery ==
    [][lastAct' = "reopen" =>
          IF ~exists \/ Len(file) = 0
          THEN lsn' = -1 /\ id' = -1 /\ lastFlushed' = -1 /\ tree' = {}
          ELSE LET t == file[Len(file)].tree IN
               /\ lsn' = MaxOf({e.lsn : e \in t}, -1)
               /\ lastFlushed' = MaxOf({e.lsn : e \in t}, -1)
               /\ tree' = IF Cardinality(t) < treesize THEN t ELSE {}]_vars
C33_LastPageRecovered ==
    /\ lastAct = "reopen" /\ Len(file) >= 2
    /\ tree = file[Len(file)].tree /\ tree # {} /\ tree # file[1].tree
    /\ lsn = MaxOf({e.lsn : e \in tree}, -1) /\ lastFlushed = lsn

(***************************************************************************)
(* SpecLive: the mutations of Spec and the timers, without flush() and     *)
(* without a reopen.  A pending setTimeout callback runs in the end.       *)
(***************************************************************************)
NextLive ==
    \/ \E v \in Payloads : Insert(v)
    \/ \E i \in Targets, v \in Updaters : Update(i, v)
    \/ \E i \in Targets : Delete(i)
    \/ \E p \in Preds : FindAndDelete(p)
    \/ TimerFire

SpecLive == Init /\ [][NextLive]_vars /\ WF_vars(TimerFire)

ReaderPermits == 1   \* permits of the reader semaphore (10 in the code, scaled down)

LockProcs == 1..(NumProcs - 3)     \* the inserts of SpecLock

\* The permits in use.
ReadersKept == IF reader.at # "idle" THEN 1 ELSE 0   \* a count() that keeps its permit
ReadersIn == IF reader.at \in {"wait", "reading"} THEN 1 ELSE 0

BeginDeleteLock(i) == ReadersIn < ReaderPermits /\ BeginDelete(i)

NextLock ==
    \/ \E p \in LockProcs : CallInsert(p)
    \/ \E p \in LockProcs : BeginInsert(p)
    \/ \E p \in LockProcs : CheckInsert(p)
    \/ \E p \in LockProcs : SetInsert(p)
    \/ \E p \in LockProcs \cup {Deleter} : RotateInsert(p)
    \/ CallDelete
    \/ \E i \in Ids : BeginDeleteLock(i)
    \/ \E o \in LockProcs \cup {Deleter, Timer, FlushCall} : JobAcquire(o)
    \/ \E o \in LockProcs \cup {Deleter, Timer, FlushCall} : JobWrite(o)
    \/ \E o \in LockProcs \cup {Deleter, Timer, FlushCall} : JobDone(o)
    \/ TimerFireConc
    \/ FlushConc
    \/ CountStart
    \/ CountOpen
    \/ CountRead

FairLock ==
    /\ \A p \in LockProcs : SF_vars(BeginInsert(p)) /\ SF_vars(CheckInsert(p)) /\ WF_vars(SetInsert(p))
    /\ \A p \in LockProcs \cup {Deleter} : WF_vars(RotateInsert(p))
    /\ WF_vars(\E i \in Ids : BeginDeleteLock(i))
    /\ \A o \in LockProcs \cup {Deleter, Timer, FlushCall} :
          WF_vars(JobAcquire(o)) /\ WF_vars(JobWrite(o)) /\ WF_vars(JobDone(o))
    /\ WF_vars(TimerFireConc)
    /\ SF_vars(CountOpen) /\ WF_vars(CountRead)

SpecLock == Init /\ [][NextLock]_vars /\ FairLock

\* C35: no insert, findOneAndDelete, count() or flush waits for ever for the
\* writer lock, a reader permit or the flusher lock: whatever calls are made,
\* the collection is again and again in a state where every call made so far
\* has returned (or rejected) and no #flush is in flight.
Quiet ==
    /\ \A p \in LockProcs \cup {Deleter} : pc[p] \in {"idle", "done"}
    /\ reader.at \notin {"wait", "reading"}
    /\ \A o \in LockProcs \cup {Deleter, Timer, FlushCall} : job[o].at = "off"
C35_EveryCallReturns == []<>Quiet
C35_WriterWaitsForPermit ==
    /\ pc[Deleter] = "wait" /\ Holds(writer, Deleter)
    /\ reader.at = "wait" /\ ReadersIn = ReaderPermits
    /\ job[FlushCall].at = "locked"

\* C36: the lsn of the OffsetIndex never decreases and an insert call whose
\* lsn is at or below it stores nothing, however the concurrent insert calls
\* are interleaved.
C36_IndexLsnMonotonic ==
    [][/\ ix'.lsn >= ix.lsn
       /\ \A k \in 1..Len(ix'.log) : k > Len(ix.log) => ix'.log[k].lsn > ix.lsn]_vars

\* C37: an insert that brings the tree of the OffsetIndex to treesize entries
\* writes that tree to the page of its lsn and leaves an empty tree; any other
\* insert only adds its entry.  So the tree always holds fewer than treesize
\* entries between inserts and is empty after every multiple of treesize
\* accepted inserts.
C37_IndexRotation ==
    [][/\ Cardinality(ix'.tree) < treesize
       /\ Len(ix'.log) % treesize = 0 => ix'.tree = {}
       /\ Len(ix'.log) = Len(ix.log) + 1 =>
              LET t == ix.tree \cup {ix'.log[Len(ix'.log)]} IN
              IF Cardinality(t) >= treesize
              THEN /\ ix'.tree = {}
                   /\ ~PastEnd(ix'.file, Position(ix'.lsn))
                   /\ PageAt(ix'.file, Position(ix'.lsn)) = Page(t)
              ELSE ix'.tree = t]_vars
====
